---- MODULE Spec2Model ----
(***************************************************************************)
(* Bidding core of the auction backend: place_bid and cancel_bid of        *)
(* app/routers/bids.py over the auction, bid and payment tables written by *)
(* app/crud.py.                                                            *)
(*                                                                         *)
(* Time is counted in minutes.  The routers address the columns in         *)
(* snake_case (auction.end_date, bid.bid_price) and app/models.py declares *)
(* them in camelCase (endDate, bidPrice); the model reads both spellings   *)
(* as the same column and keeps the routers' names.                        *)
(*                                                                         *)
(* Both endpoints are plain `def` handlers, which FastAPI runs on a thread *)
(* pool, each request with its own Session (get_db).  A request is         *)
(* modelled as a thread of control whose steps are separated by the        *)
(* commits of its Session: everything a Session reads before its first     *)
(* commit is read in one transaction (one step), every db.commit() of      *)
(* app/crud.py ends a step and is visible to the other requests.           *)
(***************************************************************************)
EXTENDS Integers, Sequences, FiniteSets, TLC

VARIABLES now, auctions, bids, payments, notifications, th,
          active_connections, connection_lock, websockets, tasks

\* the tables, the clock and the requests of the thread pool
auction_vars == <<now, auctions, bids, payments, notifications, th>>
\* the WebSocket registry of app/crud.py and the coroutines of the event loop
fanout_vars == <<active_connections, connection_lock, websockets, tasks>>

vars == <<now, auctions, bids, payments, notifications, th,
          active_connections, connection_lock, websockets, tasks>>

(***************************************************************************)
(* Bounds of the model.                                                    *)
(***************************************************************************)
MaxTime == 13
MaxBids == 2
MaxAmount == 4
PriceStep == 2
\* the clock ticks at most this often while a request is in flight
MaxRequestMinutes == 1
InitialStart == 1

\* the request slots of the thread pool
Threads == {1, 2}
Users == {1, 2}
\* auction 1 is the auction under bidding, auction 2 an upcoming auction,
\* auction 3 an id without a row
AuctionIds == {1, 2}
RequestedAuctionIds == {1, 2, 3}
Amounts == 1..MaxAmount

(***************************************************************************)
(* Constants of the program.                                               *)
(***************************************************************************)
ExtendWindow == 5
ExtendMinutes == 5
LockWindow == 10
CancelExtendMinutes == 5

InitialEnd == InitialStart + LockWindow + 1
UpcomingStart == MaxTime + 1
UpcomingEnd == UpcomingStart + 1

None == 0

(***************************************************************************)
(* Tables.                                                                 *)
(***************************************************************************)
Auction(start, end, step, st) ==
    [start_date |-> start, end_date |-> end, price_step |-> step,
     auction_status |-> st, bid_winner_id |-> None]

Bid(auction_id, user_id, bid_price) ==
    [auction_id |-> auction_id, user_id |-> user_id, bid_price |-> bid_price,
     bid_status |-> "active"]

\* the row crud.create_notification adds
Notification(user_id, auction_id, notification_type) ==
    [user_id |-> user_id, auction_id |-> auction_id,
     notification_type |-> notification_type]

\* the session-local state of one request
Idle ==
    [pc |-> "idle", user_id |-> None, auction_id |-> None, bid_price |-> 0,
     bid_id |-> None, current_time |-> 0, end_date |-> 0,
     previous_highest_bid |-> None, extended |-> FALSE]

HTTPException(status_code, detail, min_bid_amount) ==
    [status_code |-> status_code, detail |-> detail, min_bid_amount |-> min_bid_amount]

Ok(detail) == [status_code |-> 200, detail |-> detail, min_bid_amount |-> 0]

(***************************************************************************)
(* Queries of app/crud.py and the conditions of app/routers/bids.py.       *)
(***************************************************************************)
\* crud.get_auction / crud.get_bid: .first() of the row with that key, a
\* missing row is the Python None (tested by the *_found operators)
auction_found(as, auction_id) == auction_id \in DOMAIN as
get_auction(as, auction_id) == as[auction_id]

bid_found(bs, bid_id) == bid_id \in DOMAIN bs
get_bid(bs, bid_id) == bs[bid_id]

\* filter(auctionID == auction_id, bidStatus == "active")
ActiveBids(bs, auction_id) ==
    {i \in DOMAIN bs : bs[i].auction_id = auction_id /\ bs[i].bid_status = "active"}

\* order_by(bidPrice.desc()).first(): the rows the query may return; the
\* order among rows of equal bidPrice is left to the database.  {None}
\* when no row matches.
get_current_highest_bid(bs, auction_id) ==
    LET active == ActiveBids(bs, auction_id)
        top == {i \in active : \A j \in active : bs[j].bid_price <= bs[i].bid_price}
    IN IF top = {} THEN {None} ELSE top

auction_in_window_open_end(start_date, current_time, end_date) ==
    start_date <= current_time /\ current_time < end_date

\* start_date <= current_time <= end_date
auction_in_window(start_date, current_time, end_date) ==
    start_date <= current_time /\ current_time <= end_date

deposit_payment_any_auction(ps, auction_id, user_id) ==
    \E a \in DOMAIN ps[user_id] : ps[user_id][a] = "completed"

\* Payment.auction_id == auction_id, user_id == account_id,
\* payment_type == "deposit", payment_status == "completed"
deposit_payment(ps, auction_id, user_id) ==
    ps[user_id][auction_id] = "completed"

min_bid_amount_without_previous(bs, previous_highest_bid, price_step) == price_step

min_bid_amount(bs, previous_highest_bid, price_step) ==
    IF previous_highest_bid # None
    THEN bs[previous_highest_bid].bid_price + price_step
    ELSE price_step

bid_too_low_or_equal(bid_price, min_amount) == bid_price <= min_amount

bid_too_low_by_two(bid_price, min_amount) == bid_price + 1 < min_amount

\* bid.bid_price < min_bid_amount
bid_too_low(bid_price, min_amount) == bid_price < min_amount

should_extend_strict(end_date, current_time) == end_date - current_time < ExtendWindow

\* auction.end_date - current_time <= timedelta(minutes=5)
should_extend(end_date, current_time) == end_date - current_time <= ExtendWindow

extended_end_date_from_now(end_date, current_time) == current_time + ExtendMinutes

\* end_date=auction.end_date + timedelta(minutes=5)
extended_end_date(end_date, current_time) == end_date + ExtendMinutes

bid_is_active_or_cancelled(bid) == bid.bid_status \in {"active", "cancelled"}

\* the negation of bid.bid_status != "active"
bid_is_active(bid) == bid.bid_status = "active"

auction_has_ended_strict(end_date, current_time) == end_date - current_time < 0

\* time_diff.total_seconds() <= 0
auction_has_ended(end_date, current_time) == end_date - current_time <= 0

\* current_highest_bid and current_highest_bid.user_id == current_user.account_id
is_leading(bs, current_highest_bid, user_id) ==
    current_highest_bid # None /\ bs[current_highest_bid].user_id = user_id

\* datetime.utcnow() < auction.end_date
not_ended_yet(current_time, end_date) == current_time < end_date

\* time_diff <= timedelta(minutes=10)
in_lock_window(end_date, current_time) == end_date - current_time <= LockWindow

cancel_extended_end_date(end_date) == end_date + CancelExtendMinutes

\* crud.update_auction with an AuctionUpdate that sets end_date only
update_auction_end(as, auction_id, end_date) ==
    [as EXCEPT ![auction_id].end_date = end_date]

\* asyncio.get_running_loop() inside place_bid: the endpoint is a plain
\* `def`, which the server calls in a worker thread of its pool; no event
\* loop runs in that thread
running_loop == FALSE

\* what can happen to the database while the notifications are prepared:
\* nothing, an error of the query of line 105 alone, or the loss of the
\* database from line 105 on
NotificationFailures == {"none", "participant_lookup", "database_down"}

\* bids.py 103-179, the body of the try block: the exception it raises
\* ("none" when it runs to its end), the notification table it leaves and
\* whether db_bid is loaded afterwards.  The commit of crud.update_auction
\* expires db_bid (as every object of the Session), and the query of line
\* 105 loads it again.  asyncio.create_task at line 133 raises RuntimeError
\* without a running loop, before the outbid notification of lines 136-164.
notification_fanout(ns, bs, previous_highest_bid, user_id, auction_id, extended, failure) ==
    IF failure \in {"participant_lookup", "database_down"}
    THEN [raised |-> "OperationalError", notifications |-> ns, bid_loaded |-> ~extended]
    ELSE IF ~running_loop
    THEN [raised |-> "RuntimeError", notifications |-> ns, bid_loaded |-> TRUE]
    ELSE IF previous_highest_bid # None /\ bs[previous_highest_bid].user_id # user_id
    THEN [raised |-> "none", bid_loaded |-> TRUE,
          notifications |-> Append(ns, Notification(bs[previous_highest_bid].user_id,
                                                    auction_id, "bid_outbid"))]
    ELSE [raised |-> "none", notifications |-> ns, bid_loaded |-> TRUE]

\* bids.py 181-192: the except clause catches every exception of the try
\* block; the response is then built from db_bid, outside the try block,
\* which reads the row again when db_bid is not loaded
place_bid_response(fanout, failure) ==
    IF ~fanout.bid_loaded /\ failure = "database_down"
    THEN HTTPException(500, "Internal Server Error", 0)
    ELSE Ok("placed")

\* crud.create_bid: the row appended to the bid table
create_bid(bs, auction_id, user_id, bid_price) ==
    Append(bs, Bid(auction_id, user_id, bid_price))

(***************************************************************************)
(* The WebSocket registry of app/crud.py (458-504).  Its coroutines run    *)
(* on the event loop: a coroutine runs without interruption up to its next *)
(* await, and the awaits of the registry are the acquisition of            *)
(* connection_lock and websocket.send_json.                                *)
(***************************************************************************)
\* the coroutines of one behaviour, and the direct send_to_user calls
MaxTasks == 4
MaxSends == 1

WebSockets == {1, 2, 3}
\* the connections the router accepts: WebSocket 1 and 2 with a token of
\* user 1 (two devices), WebSocket 3 with a token of user 2
Connections == {<<1, 1>>, <<1, 2>>, <<2, 3>>}

\* a connection after websocket.accept()
WebSocket == [state |-> "open", received |-> <<>>]

NoMessage == [type |-> "none", bid_id |-> None]
bid_update_message(bid_id) == [type |-> "bid_update", bid_id |-> bid_id]
outbid_websocket_message(bid_id) == [type |-> "bid_outbid", bid_id |-> bid_id]
bidder_message(bid_id) == [type |-> "bid_placed", bid_id |-> bid_id]

\* a coroutine of the registry: user_ids is the order in which a broadcast
\* iterates its set of participants and i its position in it; pending are
\* the connections the for loop has still to visit
Task(op, user_id, websocket, message, user_ids) ==
    [op |-> op, pc |-> "acquire", user_id |-> user_id, websocket |-> websocket,
     message |-> message, user_ids |-> user_ids, i |-> 1,
     pending |-> {}, disconnected |-> {}]

\* asyncio.Lock: acquire() takes a free lock at once and otherwise queues
\* the caller; release() wakes the first waiter, which owns the lock before
\* any later caller of acquire()
Lock == [holder |-> None, waiters |-> <<>>]

never_locked(lock) == FALSE

locked(lock) == lock.holder # None

acquire(lock, t) ==
    IF locked(lock)
    THEN [holder |-> lock.holder, waiters |-> Append(lock.waiters, t)]
    ELSE [holder |-> t, waiters |-> lock.waiters]

release(lock) ==
    IF lock.waiters = <<>>
    THEN [holder |-> None, waiters |-> <<>>]
    ELSE [holder |-> Head(lock.waiters), waiters |-> Tail(lock.waiters)]

\* active_connections.get(user_id, set())
connections_of(ac, user_id) == IF user_id \in DOMAIN ac THEN ac[user_id] ELSE {}

\* websocket.send_json(message): delivers on an open connection and raises
\* on a closed one
send_json(websocket, message) ==
    IF websocket.state = "open"
    THEN [raised |-> FALSE,
          websocket |-> [websocket EXCEPT !.received = Append(@, message)]]
    ELSE [raised |-> TRUE, websocket |-> websocket]

except_clause_reraise(disconnected, websocket) ==
    [propagate |-> TRUE, disconnected |-> disconnected]

\* the bare except of send_to_user: disconnected.add(websocket)
except_clause(disconnected, websocket) ==
    [propagate |-> FALSE, disconnected |-> disconnected \cup {websocket}]

(***************************************************************************)
(* Initial state: auction 1 as crud.create_auction leaves it (pending),    *)
(* with the registrations made before its start: user 1 has paid the       *)
(* deposit of auction 1, user 2 has registered for auction 1 without       *)
(* paying yet and has paid the deposit of the upcoming auction 2.          *)
(***************************************************************************)
Init ==
    /\ now = 0
    /\ auctions = [a \in AuctionIds |->
                     IF a = 1 THEN Auction(InitialStart, InitialEnd, PriceStep, "pending")
                              ELSE Auction(UpcomingStart, UpcomingEnd, PriceStep, "pending")]
    /\ bids = <<>>
    /\ notifications = <<>>
    /\ payments = [u \in Users |-> [a \in AuctionIds |->
                     IF u = 1 THEN (IF a = 1 THEN "completed" ELSE "none")
                              ELSE (IF a = 1 THEN "pending" ELSE "completed")]]
    /\ th = [t \in Threads |-> Idle]
    /\ active_connections = <<>>
    /\ connection_lock = Lock
    /\ websockets = [ws \in WebSockets |-> WebSocket]
    /\ tasks = <<>>

(***************************************************************************)
(* Environment.                                                            *)
(***************************************************************************)
\* datetime.utcnow() advances
Tick ==
    /\ now < MaxTime
    /\ \A t \in Threads : th[t].pc # "idle" => now - th[t].current_time < MaxRequestMinutes
    /\ now' = now + 1
    /\ UNCHANGED <<auctions, bids, payments, notifications, th, fanout_vars>>

\* PUT /auctions/1 with auction_status = "active" by the administrator
ActivateAuction ==
    /\ auctions[1].auction_status = "pending"
    /\ auctions' = [auctions EXCEPT ![1].auction_status = "active"]
    /\ UNCHANGED <<now, bids, payments, notifications, th, fanout_vars>>

\* POST /payments/{id}/process of a pending deposit
process_payment(user_id, auction_id) ==
    /\ payments[user_id][auction_id] = "pending"
    /\ payments' = [payments EXCEPT ![user_id][auction_id] = "completed"]
    /\ UNCHANGED <<now, auctions, bids, notifications, th, fanout_vars>>

\* a request is served by the first free slot of the pool
FreeSlot(t) ==
    /\ th[t].pc = "idle"
    /\ \A o \in Threads : o < t => th[o].pc # "idle"

(***************************************************************************)
(* place_bid.                                                              *)
(***************************************************************************)
\* bids.py 39-87: the outcome of the reads and the validation, up to the
\* first write; previous_highest_bid is the row get_current_highest_bid
\* returned.  A raised HTTPException is the response of the request and
\* leaves every table as it is.
place_bid_checks(user_id, auction_id, bid_price, previous_highest_bid) ==
    LET auction == get_auction(auctions, auction_id)
        current_time == now
    IN IF ~auction_found(auctions, auction_id)
       THEN HTTPException(404, "Auction not found", 0)
       ELSE IF ~auction_in_window(auction.start_date, current_time, auction.end_date)
       THEN HTTPException(400, "Auction is not currently active", 0)
       ELSE IF auction.auction_status # "active"
       THEN HTTPException(400, "Auction is not accepting bids", 0)
       ELSE IF ~deposit_payment(payments, auction_id, user_id)
       THEN HTTPException(400, "You must register and pay the deposit", 0)
       ELSE LET min_amount == min_bid_amount(bids, previous_highest_bid, auction.price_step)
            IN IF bid_too_low(bid_price, min_amount)
               THEN HTTPException(400, "Bid must be at least", min_amount)
               ELSE Ok("validated")

place_bid_validate(t, user_id, auction_id, bid_price) ==
    /\ FreeSlot(t)
    /\ Len(bids) + Cardinality({o \in Threads : th[o].pc = "validated"}) < MaxBids
    /\ \E previous_highest_bid \in get_current_highest_bid(bids, auction_id) :
         IF place_bid_checks(user_id, auction_id, bid_price, previous_highest_bid).status_code = 200
         THEN /\ th' = [th EXCEPT ![t] =
                          [pc |-> "validated", user_id |-> user_id,
                           auction_id |-> auction_id, bid_price |-> bid_price,
                           bid_id |-> None, current_time |-> now,
                           end_date |-> get_auction(auctions, auction_id).end_date,
                           previous_highest_bid |-> previous_highest_bid,
                           extended |-> FALSE]]
              /\ UNCHANGED <<now, auctions, bids, payments, notifications, fanout_vars>>
         ELSE UNCHANGED vars

\* bids.py 89-94: crud.create_bid commits the bid; the commit expires the
\* Session's auction, so line 94 reads end_date afresh
place_bid_commit(t) ==
    /\ th[t].pc = "validated"
    /\ bids' = create_bid(bids, th[t].auction_id, th[t].user_id, th[t].bid_price)
    /\ LET end_date == get_auction(auctions, th[t].auction_id).end_date
       IN IF should_extend(end_date, th[t].current_time)
          THEN th' = [th EXCEPT ![t].pc = "committed",
                                ![t].bid_id = Len(bids) + 1,
                                ![t].end_date = end_date,
                                ![t].bid_price = 0]
          ELSE th' = [th EXCEPT ![t].pc = "notifying",
                                ![t].bid_id = Len(bids) + 1,
                                ![t].end_date = 0,
                                ![t].current_time = 0,
                                ![t].bid_price = 0]
    /\ UNCHANGED <<now, auctions, payments, notifications, fanout_vars>>

\* bids.py 95-100: crud.update_auction commits the new end_date
place_bid_extend(t) ==
    /\ th[t].pc = "committed"
    /\ auctions' = update_auction_end(auctions, th[t].auction_id,
                      extended_end_date(th[t].end_date, th[t].current_time))
    /\ th' = [th EXCEPT ![t].pc = "notifying",
                         ![t].end_date = 0,
                         ![t].current_time = 0,
                         ![t].extended = TRUE]
    /\ UNCHANGED <<now, bids, payments, notifications, fanout_vars>>

\* bids.py 102-192: the notifications (a try block whose except clause
\* prints the error); the request then answers
\* place_bid_response(fanout, failure)
place_bid_notify(t) ==
    /\ th[t].pc = "notifying"
    /\ \E failure \in NotificationFailures :
         LET fanout == notification_fanout(notifications, bids, th[t].previous_highest_bid,
                                           th[t].user_id, th[t].auction_id,
                                           th[t].extended, failure)
         IN notifications' = fanout.notifications
    /\ th' = [th EXCEPT ![t] = Idle]
    /\ UNCHANGED <<now, auctions, bids, payments, fanout_vars>>

(***************************************************************************)
(* cancel_bid.                                                             *)
(***************************************************************************)
\* bids.py 208-256: the outcome of the reads and the checks, up to the
\* first write; current_highest_bid is the row get_current_highest_bid
\* returned
cancel_bid_checks(user_id, bid_id, current_highest_bid) ==
    LET bid == get_bid(bids, bid_id)
        auction == get_auction(auctions, bid.auction_id)
        current_time == now
    IN IF ~bid_found(bids, bid_id)
       THEN HTTPException(404, "Bid not found", 0)
       ELSE IF bid.user_id # user_id
       THEN HTTPException(403, "You can only cancel your own bids", 0)
       ELSE IF ~bid_is_active(bid)
       THEN HTTPException(400, "Bid is not active", 0)
       ELSE IF ~auction_found(auctions, bid.auction_id)
       THEN HTTPException(404, "Auction not found", 0)
       ELSE IF auction_has_ended(auction.end_date, current_time)
       THEN HTTPException(400, "Cannot cancel bid after auction has ended", 0)
       ELSE IF /\ is_leading(bids, current_highest_bid, user_id)
               /\ in_lock_window(auction.end_date, current_time)
       THEN HTTPException(400, "Cannot cancel bid while leading in the last 10 minutes", 0)
       ELSE Ok("checked")

cancel_bid_check(t, user_id, bid_id) ==
    /\ FreeSlot(t)
    /\ \E current_highest_bid \in
            IF bid_found(bids, bid_id)
            THEN get_current_highest_bid(bids, get_bid(bids, bid_id).auction_id)
            ELSE {None} :
         IF cancel_bid_checks(user_id, bid_id, current_highest_bid).status_code = 200
         THEN LET bid == get_bid(bids, bid_id)
                  auction == get_auction(auctions, bid.auction_id)
              IN /\ th' = [th EXCEPT ![t] =
                             [pc |-> IF is_leading(bids, current_highest_bid, user_id)
                                     THEN "cancel_extend" ELSE "cancel",
                              user_id |-> user_id,
                              auction_id |-> bid.auction_id, bid_price |-> 0,
                              bid_id |-> bid_id, current_time |-> now,
                              end_date |-> auction.end_date,
                              previous_highest_bid |-> None, extended |-> FALSE]]
                 /\ UNCHANGED <<now, auctions, bids, payments, notifications, fanout_vars>>
         ELSE UNCHANGED vars

\* bids.py 258-263: crud.update_auction commits the extension
cancel_bid_extend(t) ==
    /\ th[t].pc = "cancel_extend"
    /\ auctions' = update_auction_end(auctions, th[t].auction_id,
                      cancel_extended_end_date(th[t].end_date))
    /\ th' = [th EXCEPT ![t].pc = "cancel"]
    /\ UNCHANGED <<now, bids, payments, notifications, fanout_vars>>

\* bids.py 265-273 and crud.cancel_bid: "Failed to cancel bid" leaves the
\* bid as it is
cancel_bid_commit(t) ==
    /\ th[t].pc = "cancel"
    /\ IF ~bid_found(bids, th[t].bid_id) \/ get_bid(bids, th[t].bid_id).user_id # th[t].user_id
       THEN UNCHANGED bids
       ELSE bids' = [bids EXCEPT ![th[t].bid_id].bid_status = "cancelled"]
    /\ th' = [th EXCEPT ![t] = Idle]
    /\ UNCHANGED <<now, auctions, payments, notifications, fanout_vars>>

(***************************************************************************)
(* The results of app/routers/status.py.                                   *)
(***************************************************************************)
\* the account ids an administrator may name as winner; account 3 has no row
RequestedWinnerIds == {1, 2, 3}

\* crud.get_account_by_id
account_found(account_id) == account_id \in Users

\* status.py 342-363: the outcome of the reads of finalize_auction;
\* highest_bid is the row get_current_highest_bid returned
finalize_auction_checks(auction_id, highest_bid) ==
    IF ~auction_found(auctions, auction_id)
    THEN HTTPException(404, "Auction not found", 0)
    ELSE IF not_ended_yet(now, get_auction(auctions, auction_id).end_date)
    THEN HTTPException(400, "Cannot finalize auction before it ends", 0)
    ELSE IF highest_bid = None
    THEN HTTPException(400, "No bids found for this auction", 0)
    ELSE Ok("checked")

finalize_auction_check(t, auction_id) ==
    /\ FreeSlot(t)
    /\ \E highest_bid \in get_current_highest_bid(bids, auction_id) :
         IF finalize_auction_checks(auction_id, highest_bid).status_code = 200
         THEN /\ th' = [th EXCEPT ![t] =
                          [Idle EXCEPT !.pc = "finalize", !.auction_id = auction_id,
                                       !.bid_id = highest_bid, !.current_time = now]]
              /\ UNCHANGED <<now, auctions, bids, payments, notifications, fanout_vars>>
         ELSE UNCHANGED vars

\* status.py 365-370: crud.update_auction commits winner and status
finalize_auction_commit(t) ==
    /\ th[t].pc = "finalize"
    /\ auctions' = [auctions EXCEPT
                       ![th[t].auction_id].bid_winner_id = get_bid(bids, th[t].bid_id).user_id,
                       ![th[t].auction_id].auction_status = "finalized"]
    /\ th' = [th EXCEPT ![t] = Idle]
    /\ UNCHANGED <<now, bids, payments, notifications, fanout_vars>>

\* status.py 100-128: PUT /status/auction/{auction_id}/result
update_auction_result(auction_id, bid_winner_id) ==
    /\ auction_found(auctions, auction_id)
    /\ ~not_ended_yet(now, get_auction(auctions, auction_id).end_date)
    /\ account_found(bid_winner_id)
    /\ auctions' = [auctions EXCEPT ![auction_id].bid_winner_id = bid_winner_id,
                                    ![auction_id].auction_status = "completed"]
    /\ UNCHANGED <<now, bids, payments, notifications, th, fanout_vars>>

(***************************************************************************)
(* Specifications.                                                         *)
(***************************************************************************)
FinalizeAuctionCheck ==
    \E t \in Threads, a \in RequestedAuctionIds : finalize_auction_check(t, a)
FinalizeAuctionCommit == \E t \in Threads : finalize_auction_commit(t)
UpdateAuctionResult ==
    \E a \in RequestedAuctionIds, w \in RequestedWinnerIds : update_auction_result(a, w)

PlaceBidValidate ==
    \E t \in Threads, u \in Users, a \in RequestedAuctionIds, p \in Amounts :
        place_bid_validate(t, u, a, p)
PlaceBidCommit == \E t \in Threads : place_bid_commit(t)
PlaceBidExtend == \E t \in Threads : place_bid_extend(t)
PlaceBidNotify == \E t \in Threads : place_bid_notify(t)
CancelBidCheck ==
    \E t \in Threads, u \in Users, b \in 1..(MaxBids + 1) : cancel_bid_check(t, u, b)
CancelBidExtend == \E t \in Threads : cancel_bid_extend(t)
CancelBidCommit == \E t \in Threads : cancel_bid_commit(t)
ProcessPayment == \E u \in Users, a \in AuctionIds : process_payment(u, a)

\* the requests of the thread pool interleave at their commits
Next ==
    \/ Tick
    \/ ActivateAuction
    \/ ProcessPayment
    \/ PlaceBidValidate
    \/ PlaceBidCommit
    \/ PlaceBidExtend
    \/ PlaceBidNotify
    \/ CancelBidCheck
    \/ CancelBidExtend
    \/ CancelBidCommit
    \/ FinalizeAuctionCheck
    \/ FinalizeAuctionCommit
    \/ UpdateAuctionResult

Spec == Init /\ [][Next]_vars

AllIdle == \A t \in Threads : th[t].pc = "idle"

\* one request at a time: a request starts when no other is in flight, and
\* runs to its response before the clock or another request moves
NextSeq ==
    \/ AllIdle /\ Tick
    \/ AllIdle /\ ActivateAuction
    \/ AllIdle /\ ProcessPayment
    \/ AllIdle /\ PlaceBidValidate
    \/ PlaceBidCommit
    \/ PlaceBidExtend
    \/ PlaceBidNotify
    \/ AllIdle /\ CancelBidCheck
    \/ CancelBidExtend
    \/ CancelBidCommit
    \/ AllIdle /\ FinalizeAuctionCheck
    \/ FinalizeAuctionCommit
    \/ AllIdle /\ UpdateAuctionResult

SpecSeq == Init /\ [][NextSeq]_vars

(***************************************************************************)
(* The coroutines of the WebSocket registry.                               *)
(***************************************************************************)
\* the registry after two accepted bids on auction 1: nobody is connected
InitFanout ==
    /\ now = InitialStart
    /\ auctions = [a \in AuctionIds |->
                     IF a = 1 THEN Auction(InitialStart, InitialEnd, PriceStep, "active")
                              ELSE Auction(UpcomingStart, UpcomingEnd, PriceStep, "pending")]
    /\ bids = <<Bid(1, 1, PriceStep), Bid(1, 2, 2 * PriceStep)>>
    /\ notifications = <<>>
    /\ payments = [u \in Users |-> [a \in AuctionIds |->
                     IF a = 1 THEN "completed"
                              ELSE (IF u = 1 THEN "none" ELSE "completed")]]
    /\ th = [t \in Threads |-> Idle]
    /\ active_connections = <<>>
    /\ connection_lock = Lock
    /\ websockets = [ws \in WebSockets |-> WebSocket]
    /\ tasks = <<>>

\* the task that owns the lock after a release continues after its acquire()
resume(ts, lock) ==
    IF lock.holder \in DOMAIN ts /\ ts[lock.holder].pc = "waiting"
    THEN [ts EXCEPT ![lock.holder].pc = "locked"]
    ELSE ts

\* a coroutine is called and runs up to `async with connection_lock`
call(task) ==
    LET t == Len(tasks) + 1
        lock == acquire(connection_lock, t)
    IN /\ Len(tasks) < MaxTasks
       /\ connection_lock' = lock
       /\ tasks' = Append(tasks, [task EXCEPT !.pc = IF lock.holder = t THEN "locked"
                                                                         ELSE "waiting"])

\* the end of `async with connection_lock` of a coroutine that returns
return(t) ==
    LET lock == release(connection_lock)
    IN /\ connection_lock' = lock
       /\ tasks' = resume([tasks EXCEPT ![t].pc = "done"], lock)

\* routers/websocket.py 60-63, 182-185: await crud.add_connection(...)
\* after websocket.accept()
add_connection_call(user_id, websocket) ==
    /\ websockets[websocket].state = "open"
    /\ \A t \in DOMAIN tasks : ~(tasks[t].op = "add" /\ tasks[t].websocket = websocket)
    /\ call(Task("add", user_id, websocket, NoMessage, <<>>))
    /\ UNCHANGED <<active_connections, websockets, auction_vars>>

\* routers/websocket.py 147-149, 237-239: the finally clause of the handler
\* whose add_connection has returned
remove_connection_call(user_id, websocket) ==
    /\ \E t \in DOMAIN tasks : /\ tasks[t].op = "add" /\ tasks[t].pc = "done"
                               /\ tasks[t].websocket = websocket
    /\ \A t \in DOMAIN tasks : ~(tasks[t].op = "remove" /\ tasks[t].websocket = websocket)
    /\ call(Task("remove", user_id, websocket, NoMessage, <<>>))
    /\ UNCHANGED <<active_connections, websockets, auction_vars>>

\* crud.send_to_user(user_id, message) called on the event loop; a message
\* of a bid is sent once
send_to_user_call(user_id, message) ==
    /\ Cardinality({t \in DOMAIN tasks : tasks[t].op = "send"}) < MaxSends
    /\ \A t \in DOMAIN tasks : tasks[t].message # message
    /\ call(Task("send", user_id, None, message, <<user_id>>))
    /\ UNCHANGED <<active_connections, websockets, auction_vars>>

\* the orders in which a set of users can be iterated
iteration_orders(user_ids) ==
    {order \in [1..Cardinality(user_ids) -> user_ids] :
        \A i, j \in DOMAIN order : i # j => order[i] # order[j]}

\* crud.broadcast_to_auction_participants(db, auction_id, message) of the
\* next committed bid of the auction: user_ids = set(bid.userID for bid in
\* bids), iterated in an order the language leaves open, and send_to_user
\* of the first of them
broadcast_to_auction_participants_call(auction_id, user_ids) ==
    LET bid_id == Cardinality({t \in DOMAIN tasks : tasks[t].op = "broadcast"}) + 1
    IN /\ bid_id \in DOMAIN bids
       /\ bids[bid_id].auction_id = auction_id
       /\ user_ids \in iteration_orders({bids[i].user_id : i \in
                          {j \in DOMAIN bids : bids[j].auction_id = auction_id}})
       /\ call(Task("broadcast", user_ids[1], None, bid_update_message(bid_id), user_ids))
       /\ UNCHANGED <<active_connections, websockets, auction_vars>>

\* crud.py 462-467, under the lock
add_connection(t) ==
    /\ tasks[t].op = "add" /\ tasks[t].pc = "locked"
    /\ active_connections' =
         [u \in DOMAIN active_connections \cup {tasks[t].user_id} |->
            IF u = tasks[t].user_id
            THEN connections_of(active_connections, u) \cup {tasks[t].websocket}
            ELSE active_connections[u]]
    /\ return(t)
    /\ UNCHANGED <<websockets, auction_vars>>

\* crud.py 470-476, under the lock
remove_connection(t) ==
    /\ tasks[t].op = "remove" /\ tasks[t].pc = "locked"
    /\ LET user_id == tasks[t].user_id
           connections == connections_of(active_connections, user_id) \ {tasks[t].websocket}
       IN active_connections' =
            IF user_id \notin DOMAIN active_connections THEN active_connections
            ELSE IF connections = {}
            THEN [u \in DOMAIN active_connections \ {user_id} |-> active_connections[u]]
            ELSE [active_connections EXCEPT ![user_id] = connections]
    /\ return(t)
    /\ UNCHANGED <<websockets, auction_vars>>

\* crud.py 481-483: connections = active_connections.get(user_id, set())
send_to_user(t) ==
    /\ tasks[t].op \in {"send", "broadcast"} /\ tasks[t].pc = "locked"
    /\ tasks' = [tasks EXCEPT ![t].pc = "iterating",
                              ![t].pending = connections_of(active_connections, tasks[t].user_id),
                              ![t].disconnected = {}]
    /\ UNCHANGED <<active_connections, connection_lock, websockets, auction_vars>>

\* crud.py 485-487: the for loop reaches `await websocket.send_json(message)`
\* for the next connection of the set, the lock held
send_json_await(t) ==
    /\ tasks[t].pc = "iterating"
    /\ \E websocket \in tasks[t].pending :
         tasks' = [tasks EXCEPT ![t].pc = "awaiting", ![t].websocket = websocket]
    /\ UNCHANGED <<active_connections, connection_lock, websockets, auction_vars>>

\* crud.py 486-489: send_json returns or raises; an exception that the except
\* clause lets through leaves `async with`, which releases the lock
send_json_done(t) ==
    /\ tasks[t].pc = "awaiting"
    /\ LET websocket == tasks[t].websocket
           sent == send_json(websockets[websocket], tasks[t].message)
           handler == except_clause(tasks[t].disconnected, websocket)
       IN /\ websockets' = [websockets EXCEPT ![websocket] = sent.websocket]
          /\ IF sent.raised /\ handler.propagate
             THEN LET lock == release(connection_lock)
                  IN /\ connection_lock' = lock
                     /\ tasks' = resume([tasks EXCEPT ![t].pc = "raised"], lock)
             ELSE /\ tasks' = [tasks EXCEPT
                        ![t].pc = "iterating",
                        ![t].pending = @ \ {websocket},
                        ![t].disconnected = IF sent.raised THEN handler.disconnected ELSE @]
                  /\ UNCHANGED connection_lock
    /\ UNCHANGED <<active_connections, auction_vars>>

\* crud.py 491-493: connections.discard(websocket) for the disconnected
\* ones, on the set of the registry itself; the lock is released.
\* crud.py 502-504: a broadcast goes on to send_to_user of its next user.
send_to_user_return(t) ==
    /\ tasks[t].pc = "iterating" /\ tasks[t].pending = {}
    /\ LET user_id == tasks[t].user_id
       IN active_connections' =
            IF user_id \in DOMAIN active_connections
            THEN [active_connections EXCEPT ![user_id] = @ \ tasks[t].disconnected]
            ELSE active_connections
    /\ IF tasks[t].i < Len(tasks[t].user_ids)
       THEN LET lock == acquire(release(connection_lock), t)
            IN /\ connection_lock' = lock
               /\ tasks' = resume([tasks EXCEPT
                      ![t].pc = IF lock.holder = t THEN "locked" ELSE "waiting",
                      ![t].i = @ + 1,
                      ![t].user_id = tasks[t].user_ids[tasks[t].i + 1],
                      ![t].pending = {},
                      ![t].disconnected = {}], lock)
       ELSE return(t)
    /\ UNCHANGED <<websockets, auction_vars>>

\* the client of an accepted connection goes away
disconnect(websocket) ==
    /\ websockets[websocket].state = "open"
    /\ \E t \in DOMAIN tasks : tasks[t].op = "add" /\ tasks[t].websocket = websocket
    /\ websockets' = [websockets EXCEPT ![websocket].state = "closed"]
    /\ UNCHANGED <<active_connections, connection_lock, tasks, auction_vars>>

AddConnectionCall == \E c \in Connections : add_connection_call(c[1], c[2])
RemoveConnectionCall == \E c \in Connections : remove_connection_call(c[1], c[2])
SendToUserCall ==
    \E user_id \in Users :
       \E message \in {outbid_websocket_message(Len(bids)), bidder_message(Len(bids))} :
          send_to_user_call(user_id, message)
BroadcastCall ==
    \E user_ids \in iteration_orders(Users) : broadcast_to_auction_participants_call(1, user_ids)
AddConnection == \E t \in DOMAIN tasks : add_connection(t)
RemoveConnection == \E t \in DOMAIN tasks : remove_connection(t)
SendToUser == \E t \in DOMAIN tasks : send_to_user(t)
SendJsonAwait == \E t \in DOMAIN tasks : send_json_await(t)
SendJsonDone == \E t \in DOMAIN tasks : send_json_done(t)
SendToUserReturn == \E t \in DOMAIN tasks : send_to_user_return(t)
Disconnect == \E websocket \in WebSockets : disconnect(websocket)

NextFanout ==
    \/ AddConnectionCall
    \/ RemoveConnectionCall
    \/ SendToUserCall
    \/ BroadcastCall
    \/ AddConnection
    \/ RemoveConnection
    \/ SendToUser
    \/ SendJsonAwait
    \/ SendJsonDone
    \/ SendToUserReturn
    \/ Disconnect

SpecFanout == InitFanout /\ [][NextFanout]_vars

(***************************************************************************)
(* The vocabulary of the specification (spec.md 4.1, 4.2).                 *)
(***************************************************************************)
Abs(n) == IF n < 0 THEN -n ELSE n

\* AuctionClock.isOpenForBidding(now)
isOpenForBidding(a) ==
    /\ auctions[a].start_date <= now
    /\ now <= auctions[a].end_date
    /\ auctions[a].auction_status = "active"

\* the amount of BidLedger.currentHighest(), 0 when there is no active bid
HighestActiveAmount(a) ==
    IF ActiveBids(bids, a) = {} THEN 0
    ELSE bids[CHOOSE i \in ActiveBids(bids, a) :
                \A j \in ActiveBids(bids, a) : bids[j].bid_price <= bids[i].bid_price].bid_price

\* BidLedger.minimumNextBid()
minimumNextBid(a) ==
    IF ActiveBids(bids, a) = {} THEN auctions[a].price_step
    ELSE HighestActiveAmount(a) + auctions[a].price_step

hasCompletedDeposit(a, u) == payments[u][a] = "completed"

AuctionNotActive ==
    {HTTPException(400, "Auction is not currently active", 0),
     HTTPException(400, "Auction is not accepting bids", 0)}

DepositRequired == HTTPException(400, "You must register and pay the deposit", 0)

BidTooLow(min_amount) == HTTPException(400, "Bid must be at least", min_amount)

\* the active bids of the greatest amount
TopBids(a) ==
    {i \in ActiveBids(bids, a) :
        \A j \in ActiveBids(bids, a) : bids[j].bid_price <= bids[i].bid_price}

\* BidLedger.currentHighest(): the active bid of the greatest amount, the
\* earliest created among those of equal amount; None without an active bid.
\* Bids are numbered in the order of their creation.
currentHighest(a) ==
    IF TopBids(a) = {} THEN None
    ELSE CHOOSE i \in TopBids(a) : \A j \in TopBids(a) : i <= j

NotOwner == HTTPException(403, "You can only cancel your own bids", 0)

BidNotActive == HTTPException(400, "Bid is not active", 0)

AuctionEnded == HTTPException(400, "Cannot cancel bid after auction has ended", 0)

CancelNotAllowed ==
    HTTPException(400, "Cannot cancel bid while leading in the last 10 minutes", 0)

\* the step by which request t passes its checks and goes on to write
StartsPlaceBid(t) == th[t].pc = "idle" /\ th'[t].pc = "validated"
StartsCancelBid(t) == th[t].pc = "idle" /\ th'[t].pc \in {"cancel", "cancel_extend"}

\* the step of request t that appends its bid to the bid table
Accepts(t) == th[t].pc = "validated" /\ Len(bids') = Len(bids) + 1 /\ th'[t].pc # "validated"

(***************************************************************************)
(* C1.  For any interleaving of concurrent place_bid calls, any two        *)
(* committed active bids of the auction differ in amount by at least       *)
(* price_step.                                                             *)
(***************************************************************************)
C1_CommittedBidsKeepIncrement ==
    \A i \in ActiveBids(bids, 1), j \in ActiveBids(bids, 1) :
        i # j => Abs(bids[i].bid_price - bids[j].bid_price) >= auctions[1].price_step

(***************************************************************************)
(* C2, as claimed.  With place_bid calls running one at a time and cancels *)
(* between them, each accepted bid's amount is at least the amount of the  *)
(* previously accepted bid plus price_step.                                *)
(***************************************************************************)
C2_EachBidBeatsPreviousAccepted ==
    \A i \in 2..Len(bids) :
        bids[i].bid_price >= bids[i - 1].bid_price + auctions[1].price_step

(***************************************************************************)
(* C2, amended.  With place_bid calls running one at a time, each accepted *)
(* bid's amount is at least the amount of the highest bid still active     *)
(* when it is accepted plus price_step (price_step when none is active);   *)
(* cancelled bids no longer count.                                         *)
(***************************************************************************)
C2_EachBidBeatsHighestActive ==
    [][\A t \in Threads :
         Accepts(t) =>
            bids'[Len(bids')].bid_price >= minimumNextBid(th[t].auction_id)]_vars

\* a bid accepted right after a cancelled one, below that one's amount + price_step
C2_Witness ==
    \E i \in 1..(Len(bids) - 1) :
        /\ bids[i].bid_status = "cancelled"
        /\ bids[i + 1].bid_status = "active"
        /\ bids[i + 1].bid_price < bids[i].bid_price + auctions[1].price_step

(***************************************************************************)
(* C3.  On an auction open for bidding and for a bidder with a completed   *)
(* deposit, place_bid passes validation iff amount >= minimumNextBid       *)
(* (highest active amount + price_step, or price_step without an active    *)
(* bid), and a rejection reports exactly that minimum.                     *)
(***************************************************************************)
C3_AcceptedIffAtLeastMinimum ==
    \A u \in Users, p \in Amounts, prev \in get_current_highest_bid(bids, 1) :
        (isOpenForBidding(1) /\ hasCompletedDeposit(1, u)) =>
            LET r == place_bid_checks(u, 1, p, prev)
            IN /\ (r.status_code = 200) <=> (p >= minimumNextBid(1))
               /\ (r.status_code # 200) => r = BidTooLow(minimumNextBid(1))

\* a request validated with exactly the minimum over an active bid, while one
\* unit less is refused with that minimum
C3_Witness ==
    \E t \in Threads :
        /\ th[t].pc = "validated"
        /\ ActiveBids(bids, 1) # {}
        /\ isOpenForBidding(1)
        /\ th[t].bid_price = minimumNextBid(1)
        /\ \E prev \in get_current_highest_bid(bids, 1) :
              place_bid_checks(th[t].user_id, 1, th[t].bid_price - 1, prev)
                 = BidTooLow(th[t].bid_price)

(***************************************************************************)
(* C4, as claimed.  A bid accepted while a previous highest active bid     *)
(* exists is strictly greater than previous_highest + price_step.          *)
(***************************************************************************)
C4_StrictlyGreaterThanIncrement ==
    \A t \in Threads :
        (th[t].pc = "validated" /\ th[t].previous_highest_bid # None) =>
            th[t].bid_price >
                bids[th[t].previous_highest_bid].bid_price + auctions[th[t].auction_id].price_step

(***************************************************************************)
(* C4, amended.  A bid accepted while a previous highest active bid exists *)
(* is at least previous_highest + price_step (exactly that amount is       *)
(* accepted); without a prior bid, amount >= price_step suffices.          *)
(***************************************************************************)
C4_AtLeastIncrement ==
    \A t \in Threads :
        th[t].pc = "validated" =>
            IF th[t].previous_highest_bid # None
            THEN th[t].bid_price >=
                   bids[th[t].previous_highest_bid].bid_price + auctions[th[t].auction_id].price_step
            ELSE th[t].bid_price >= auctions[th[t].auction_id].price_step

\* a bid of exactly previous_highest + price_step on its way to the bid table
C4_Witness ==
    \E t \in Threads :
        /\ th[t].pc = "validated"
        /\ th[t].previous_highest_bid # None
        /\ th[t].bid_price =
             bids[th[t].previous_highest_bid].bid_price + auctions[th[t].auction_id].price_step

(***************************************************************************)
(* C5.  The bid insert and the end extension of a late bid are one atomic  *)
(* step: no state shows the late bid in the bid table while the auction's  *)
(* end_date still holds its value from before the extension.               *)
(***************************************************************************)
C5_LateBidAndExtensionAtomic ==
    \A t \in Threads :
        ~ /\ th[t].pc = "committed"
          /\ bid_found(bids, th[t].bid_id)
          /\ auctions[th[t].auction_id].end_date = th[t].end_date

(***************************************************************************)
(* C6.  Under any interleaving of place_bid and cancel_bid, the auction's  *)
(* end_date never takes a value smaller than one it held before.           *)
(***************************************************************************)
C6_EndNeverMovesBack ==
    [][auctions'[1].end_date >= auctions[1].end_date]_vars

(***************************************************************************)
(* C7.  Every accepted place_bid with end - now <= 5 minutes sets end to   *)
(* exactly the previous end + 5 minutes (not to now + 5 minutes); one with *)
(* end - now > 5 minutes leaves end unchanged.  The previous end is the    *)
(* end_date in force when the bid is committed, which the request holds.   *)
(***************************************************************************)
C7_LateBidExtendsByFive ==
    [][\A t \in Threads :
         /\ Accepts(t) =>
              LET end_date == auctions[th[t].auction_id].end_date
              IN IF end_date - th[t].current_time <= 5
                 THEN th'[t].pc = "committed" /\ th'[t].end_date = end_date
                 ELSE th'[t].pc = "notifying" /\ auctions' = auctions
         /\ (th[t].pc = "committed" /\ th'[t].pc # "committed") =>
              auctions'[th[t].auction_id].end_date = th[t].end_date + 5]_vars

\* the only bid is active, was placed late, and end has moved by 5 minutes
\* while the clock stands elsewhere than at the old end
C7_Witness ==
    /\ AllIdle
    /\ Len(bids) = 1
    /\ bids[1].bid_status = "active"
    /\ auctions[1].end_date = InitialEnd + 5
    /\ now < InitialEnd

(***************************************************************************)
(* C8, as claimed.  A bid accepted 3 minutes before end = T yields         *)
(* end = T + 2 minutes, and a second bid accepted 4 minutes before that    *)
(* new end extends it to (T + 2) + 5.                                      *)
(***************************************************************************)
C8_ExtendsToNowPlusFive ==
    [][\A t \in Threads :
         (th[t].pc = "committed" /\ th'[t].pc # "committed") =>
            /\ (th[t].end_date = InitialEnd /\ th[t].current_time = InitialEnd - 3)
                  => auctions'[1].end_date = InitialEnd + 2
            /\ (th[t].end_date = InitialEnd + 2 /\ th[t].current_time = InitialEnd + 2 - 4)
                  => auctions'[1].end_date = InitialEnd + 2 + 5]_vars

(***************************************************************************)
(* C8, amended.  A bid accepted 3 minutes before end = T yields            *)
(* end = T + 5 minutes, and a second bid accepted 4 minutes before that    *)
(* new end extends it again to (T + 5) + 5.                                *)
(***************************************************************************)
C8_ExtendsFromEnd ==
    [][\A t \in Threads :
         /\ (Accepts(t) /\ auctions[1].end_date - th[t].current_time \in {3, 4})
               => th'[t].pc = "committed"
         /\ (th[t].pc = "committed" /\ th'[t].pc # "committed") =>
               /\ (th[t].end_date = InitialEnd /\ th[t].current_time = InitialEnd - 3)
                     => auctions'[1].end_date = InitialEnd + 5
               /\ (th[t].end_date = InitialEnd + 5 /\ th[t].current_time = InitialEnd + 5 - 4)
                     => auctions'[1].end_date = InitialEnd + 5 + 5]_vars

\* the second bid, committed 4 minutes before the end the first extension set
C8_Witness ==
    \E t \in Threads :
        /\ th[t].pc = "committed"
        /\ th[t].end_date = InitialEnd + 5
        /\ auctions[1].end_date = InitialEnd + 5
        /\ th[t].current_time = InitialEnd + 5 - 4
        /\ Len(bids) = 2

(***************************************************************************)
(* C9.  place_bid is rejected as not active, writing no bid, whenever      *)
(* now < start, now > end or the status is not active, and not on that     *)
(* ground when start <= now <= end (both inclusive) and status is active.  *)
(***************************************************************************)
C9_RejectedOutsideWindow ==
    /\ \A u \in Users, a \in AuctionIds, p \in Amounts :
       \A prev \in get_current_highest_bid(bids, a) :
          LET r == place_bid_checks(u, a, p, prev)
          IN /\ ~isOpenForBidding(a) => r \in AuctionNotActive
             /\ isOpenForBidding(a) => r \notin AuctionNotActive
    /\ \A t \in Threads :
          th[t].pc = "validated" =>
             /\ auctions[th[t].auction_id].start_date <= th[t].current_time
             /\ th[t].current_time <= th[t].end_date

\* a request validated at now = end, and the clock now past end
C9_Witness ==
    \E t \in Threads :
        /\ th[t].pc = "validated"
        /\ th[t].current_time = th[t].end_date
        /\ auctions[1].auction_status = "active"
        /\ now > auctions[1].end_date
        /\ place_bid_checks(1, 1, MaxAmount, None) \in AuctionNotActive

(***************************************************************************)
(* C10.  On an auction open for bidding, place_bid by a bidder without a   *)
(* completed deposit payment for that auction is rejected with the deposit *)
(* error whatever the amount, also with a pending deposit or a completed   *)
(* deposit for another auction; no bid is written.                         *)
(***************************************************************************)
C10_DepositRequired ==
    /\ \A u \in Users, a \in AuctionIds, p \in Amounts :
       \A prev \in get_current_highest_bid(bids, a) :
          (isOpenForBidding(a) /\ ~hasCompletedDeposit(a, u)) =>
              place_bid_checks(u, a, p, prev) = DepositRequired
    /\ \A i \in DOMAIN bids : hasCompletedDeposit(bids[i].auction_id, bids[i].user_id)
    /\ \A t \in Threads :
          th[t].pc = "validated" => hasCompletedDeposit(th[t].auction_id, th[t].user_id)

\* user 2, with a pending deposit here and a completed one for auction 2, is
\* refused a valid and a too low amount on the open auction
C10_Witness ==
    /\ isOpenForBidding(1)
    /\ payments[2][1] = "pending"
    /\ payments[2][2] = "completed"
    /\ ActiveBids(bids, 1) # {}
    /\ minimumNextBid(1) <= MaxAmount
    /\ \A prev \in get_current_highest_bid(bids, 1) :
          /\ place_bid_checks(2, 1, MaxAmount, prev) = DepositRequired
          /\ place_bid_checks(2, 1, 1, prev) = DepositRequired

(***************************************************************************)
(* C11.  A rejected place_bid (auction not found, auction not active,      *)
(* deposit missing, bid too low) and a rejected cancel_bid (not the owner, *)
(* bid not active, auction ended, leading in the last 10 minutes) leave    *)
(* the bids, their statuses, the auction's end and the notifications as    *)
(* they were: only a request that none of these grounds applies to goes on *)
(* to write, and nothing is written but by such a request.                 *)
(***************************************************************************)
C11_RejectedRequestsWriteNothing ==
    [][/\ \A t \in Threads :
            StartsPlaceBid(t) =>
               LET r == th'[t]
               IN /\ r.auction_id \in DOMAIN auctions
                  /\ isOpenForBidding(r.auction_id)
                  /\ hasCompletedDeposit(r.auction_id, r.user_id)
                  /\ r.bid_price >= minimumNextBid(r.auction_id)
       /\ \A t \in Threads :
            StartsCancelBid(t) =>
               LET r == th'[t]
               IN /\ r.bid_id \in DOMAIN bids
                  /\ bids[r.bid_id].user_id = r.user_id
                  /\ bids[r.bid_id].bid_status = "active"
                  /\ now < auctions[r.auction_id].end_date
                  /\ ~ /\ auctions[r.auction_id].end_date - now <= 10
                        /\ \A i \in TopBids(r.auction_id) : bids[i].user_id = r.user_id
       /\ ( \/ bids' # bids
            \/ notifications' # notifications
            \/ \E a \in AuctionIds : auctions'[a].end_date # auctions[a].end_date )
          => \E t \in Threads : th[t].pc # "idle" /\ th'[t] # th[t]]_vars

\* a state with a cancelled and an active bid in which requests of seven
\* kinds are rejected
C11_Witness ==
    /\ Len(bids) = 2
    /\ bids[1].bid_status = "cancelled"
    /\ bids[2].bid_status = "active" /\ bids[2].user_id = 1
    /\ auctions[1].end_date # InitialEnd
    /\ place_bid_checks(1, 3, MaxAmount, None).status_code = 404
    /\ place_bid_checks(1, 2, MaxAmount, None) \in AuctionNotActive
    /\ place_bid_checks(2, 1, MaxAmount, 2) = DepositRequired
    /\ place_bid_checks(1, 1, 1, 2) = BidTooLow(minimumNextBid(1))
    /\ cancel_bid_checks(2, 2, 2) = NotOwner
    /\ cancel_bid_checks(bids[1].user_id, 1, 2) = BidNotActive
    /\ cancel_bid_checks(1, 2, 2) = CancelNotAllowed

(***************************************************************************)
(* C12.  cancel_bid issued by the owner of the current highest bid on that *)
(* bid is rejected with "Cannot cancel bid while leading in the last 10    *)
(* minutes" whenever 0 < end - now <= 10 minutes, the boundary included    *)
(* (so the bid stays active and end stays as it is).                       *)
(***************************************************************************)
C12_LeaderLockedInLastTenMinutes ==
    \A b \in DOMAIN bids :
        LET a == bids[b].auction_id
            remaining == auctions[a].end_date - now
        IN (b = currentHighest(a) /\ 0 < remaining /\ remaining <= 10) =>
              \A current_highest_bid \in get_current_highest_bid(bids, a) :
                  cancel_bid_checks(bids[b].user_id, b, current_highest_bid) = CancelNotAllowed

(***************************************************************************)
(* C13.  cancel_bid of the current highest bid by its owner with           *)
(* end - now > 10 minutes succeeds, sets that bid's status to cancelled    *)
(* and sets end to exactly the previous end + 5 minutes.                   *)
(***************************************************************************)
C13_LeadingCancelExtendsByFive ==
    [][\A t \in Threads :
         LET a == th[t].auction_id
         IN /\ \A b \in DOMAIN bids :
                 (b = currentHighest(bids[b].auction_id)
                    /\ auctions[bids[b].auction_id].end_date - now > 10) =>
                    /\ \A current_highest_bid \in
                             get_current_highest_bid(bids, bids[b].auction_id) :
                          cancel_bid_checks(bids[b].user_id, b, current_highest_bid).status_code = 200
                    /\ (StartsCancelBid(t) /\ th'[t].bid_id = b) => th'[t].pc = "cancel_extend"
            /\ (th[t].pc = "cancel_extend" /\ th'[t].pc # "cancel_extend") =>
                 /\ auctions'[a].end_date = auctions[a].end_date + 5
                 /\ th'[t].pc = "cancel"
            /\ (th[t].pc = "cancel" /\ th'[t].pc # "cancel") =>
                 bids'[th[t].bid_id].bid_status = "cancelled"]_vars

(***************************************************************************)
(* C14.  cancel_bid by its owner, before the auction has ended, on an      *)
(* active bid that is not itself the current highest bid is never rejected *)
(* by the leading-bid lock and never changes end, whatever time remains    *)
(* and also when the same bidder holds the current highest bid through     *)
(* another bid.                                                            *)
(***************************************************************************)
C14_NonLeadingBidCancelsFreely ==
    [][\A b \in DOMAIN bids :
         LET a == bids[b].auction_id
         IN (bids[b].bid_status = "active" /\ b # currentHighest(a)
               /\ now < auctions[a].end_date) =>
               /\ \A current_highest_bid \in get_current_highest_bid(bids, a) :
                     cancel_bid_checks(bids[b].user_id, b, current_highest_bid)
                        # CancelNotAllowed
               /\ \A t \in Threads :
                     (StartsCancelBid(t) /\ th'[t].bid_id = b) => th'[t].pc = "cancel"]_vars

(***************************************************************************)
(* C15.  Once now > end holds for an auction, no place_bid and no          *)
(* cancel_bid succeeds on it: its bids, their statuses and its end stay as *)
(* they are, also for requests that passed their time check before end     *)
(* was reached and commit afterwards.                                      *)
(***************************************************************************)
C15_NothingChangesAfterEnd ==
    [][\A a \in AuctionIds :
         now > auctions[a].end_date =>
            /\ auctions'[a].end_date = auctions[a].end_date
            /\ \A i \in DOMAIN bids' :
                  bids'[i].auction_id = a => (i \in DOMAIN bids /\ bids'[i] = bids[i])]_vars

\* the notifications of type bid_outbid addressed to user u
OutbidEvents(u) ==
    {n \in DOMAIN notifications :
        notifications[n].user_id = u /\ notifications[n].notification_type = "bid_outbid"}

(***************************************************************************)
(* C16.  An accepted place_bid emits exactly one outbid notification,      *)
(* addressed to the bidder of the previous highest active bid, iff such a  *)
(* bid exists and belongs to another bidder than the new bid; otherwise it *)
(* emits none (a leader raising their own bid is not notified).            *)
(***************************************************************************)
C16_OneOutbidEventToPreviousLeader ==
    [][\A t \in Threads :
         (th[t].pc = "notifying" /\ th'[t].pc # "notifying") =>
            LET previous_highest_bid == th[t].previous_highest_bid
            IN IF previous_highest_bid # None
                  /\ bids[previous_highest_bid].user_id # th[t].user_id
               THEN notifications' =
                       Append(notifications,
                              Notification(bids[previous_highest_bid].user_id,
                                           th[t].auction_id, "bid_outbid"))
               ELSE notifications' = notifications]_vars

\* the leading bid among the first k bids when none of them is cancelled:
\* the greatest amount, the earliest of equal amounts; None for k = 0
LeaderOfPrefix(k) ==
    IF k = 0 THEN None
    ELSE CHOOSE i \in 1..k :
            \A j \in 1..k :
               \/ bids[j].bid_price < bids[i].bid_price
               \/ (bids[j].bid_price = bids[i].bid_price /\ i <= j)

\* the bids by which user u lost the lead to another bidder
LeadLosses(u) ==
    {k \in 2..Len(bids) :
        /\ bids[LeaderOfPrefix(k - 1)].user_id = u
        /\ LeaderOfPrefix(k) = k
        /\ bids[k].user_id # u}

(***************************************************************************)
(* C17.  Under concurrent place_bid calls on one auction no outbid event   *)
(* is lost or duplicated: once the requests have answered, the number of   *)
(* outbid notifications addressed to a bidder equals the number of times   *)
(* that bidder lost the lead to another bidder (stated for histories in    *)
(* which no bid was cancelled, where the bid table tells every change of   *)
(* the lead).                                                              *)
(***************************************************************************)
C17_OutbidEventsMatchLeadLosses ==
    (AllIdle /\ \A i \in DOMAIN bids : bids[i].auction_id = 1 /\ bids[i].bid_status = "active") =>
        \A u \in Users : Cardinality(OutbidEvents(u)) = Cardinality(LeadLosses(u))

(***************************************************************************)
(* C18.  If a step of the notification fan-out fails after the bid is      *)
(* committed, place_bid still answers with success and the committed bid   *)
(* and the end extension stay in place.                                    *)
(***************************************************************************)
C18_NotificationFailureKeepsBid ==
    [][\A t \in Threads :
         th[t].pc = "notifying" =>
            /\ \A failure \in NotificationFailures :
                  place_bid_response(
                      notification_fanout(notifications, bids, th[t].previous_highest_bid,
                                          th[t].user_id, th[t].auction_id,
                                          th[t].extended, failure),
                      failure) = Ok("placed")
            /\ th[t].bid_id \in DOMAIN bids
            /\ th'[t].pc # "notifying" => (bids' = bids /\ auctions' = auctions)]_vars

(***************************************************************************)
(* C19.  For every bid table, get_current_highest_bid returns the active   *)
(* bid of the greatest amount, the earliest created among active bids of   *)
(* equal amount, and none when no bid is active; a cancelled bid is never  *)
(* returned, even if its amount is the greatest.                           *)
(***************************************************************************)
C19_HighestIsEarliestOfGreatest ==
    \A a \in AuctionIds :
        get_current_highest_bid(bids, a) = {currentHighest(a)}

(***************************************************************************)
(* C20.  After its creation a bid's auction, bidder and amount never       *)
(* change (nor its place in the order of creation); its status changes     *)
(* only from active to cancelled, only by a cancel_bid of the bid's own    *)
(* bidder, and a cancelled bid never becomes active again: a cancel_bid on *)
(* it is rejected.                                                         *)
(***************************************************************************)
C20_BidsImmutableButCancel ==
    [][\A i \in DOMAIN bids :
         /\ i \in DOMAIN bids'
         /\ bids'[i].auction_id = bids[i].auction_id
         /\ bids'[i].user_id = bids[i].user_id
         /\ bids'[i].bid_price = bids[i].bid_price
         /\ bids'[i].bid_status # bids[i].bid_status =>
               /\ bids[i].bid_status = "active"
               /\ bids'[i].bid_status = "cancelled"
               /\ \E t \in Threads :
                     /\ th[t].pc = "cancel" /\ th'[t].pc = "idle"
                     /\ th[t].bid_id = i
                     /\ th[t].user_id = bids[i].user_id
         /\ bids[i].bid_status = "cancelled" =>
               /\ bids'[i].bid_status = "cancelled"
               /\ \A u \in Users :
                  \A current_highest_bid \in get_current_highest_bid(bids, bids[i].auction_id) :
                     cancel_bid_checks(u, i, current_highest_bid) =
                        IF u = bids[i].user_id THEN BidNotActive ELSE NotOwner]_vars

\* a cancelled bid below an active one, both of user 1, with no request in
\* flight: a second cancel of the cancelled bid is refused
C20_Witness ==
    /\ AllIdle
    /\ Len(bids) = 2
    /\ bids[1].bid_status = "cancelled" /\ bids[1].user_id = 1
    /\ bids[2].bid_status = "active" /\ bids[2].user_id = 1
    /\ bids[2].bid_price > bids[1].bid_price
    /\ now < auctions[1].end_date
    /\ cancel_bid_checks(1, 1, 2) = BidNotActive

(***************************************************************************)
(* C21.  In every reachable state an auction's winner is set if and only   *)
(* if its status is finalized or completed and the auction has at least    *)
(* one bid, after finalize_auction and after update_auction_result alike.  *)
(***************************************************************************)
C21_WinnerIffClosedWithBid ==
    \A a \in AuctionIds :
        (auctions[a].bid_winner_id # None) <=>
            /\ auctions[a].auction_status \in {"finalized", "completed"}
            /\ \E i \in DOMAIN bids : bids[i].auction_id = a

(***************************************************************************)
(* C22.  In every reachable state in which an auction's status is          *)
(* finalized, its winner is the bidder of the highest active bid of that   *)
(* auction: finalize is rejected before end and without an active bid, and *)
(* no place_bid or cancel_bid running concurrently with or after finalize  *)
(* (also at now = end) makes the winner differ from that bidder.           *)
(***************************************************************************)
C22_WinnerHoldsHighestActiveBid ==
    \A a \in AuctionIds :
        /\ auctions[a].auction_status = "finalized" =>
              /\ currentHighest(a) # None
              /\ auctions[a].bid_winner_id = bids[currentHighest(a)].user_id
        /\ \A highest_bid \in get_current_highest_bid(bids, a) :
              (now < auctions[a].end_date \/ ActiveBids(bids, a) = {}) =>
                  finalize_auction_checks(a, highest_bid).status_code = 400

(***************************************************************************)
(* C23.  An auction created in status pending becomes active when now      *)
(* reaches start: for every now with start <= now <= end, a place_bid by a *)
(* bidder with a completed deposit and a sufficient amount is accepted     *)
(* without any administrative status update having been made.              *)
(***************************************************************************)
C23_PendingOpensAtStart ==
    \A a \in AuctionIds, u \in Users, p \in Amounts :
    \A previous_highest_bid \in get_current_highest_bid(bids, a) :
        ( /\ auctions[a].auction_status = "pending"
          /\ auctions[a].start_date <= now /\ now <= auctions[a].end_date
          /\ hasCompletedDeposit(a, u)
          /\ p >= minimumNextBid(a) ) =>
            place_bid_checks(u, a, p, previous_highest_bid).status_code = 200

(***************************************************************************)
(* C25.  cancel_bid of a leading bid with more than 10 minutes remaining   *)
(* applies the end extension and the status change to cancelled            *)
(* atomically: the step that extends end also cancels the bid, so that no  *)
(* other request sees end extended while the bid is still active, and      *)
(* without the status change there is no extension.                        *)
(***************************************************************************)
C25_CancelExtensionAtomic ==
    [][\A t \in Threads :
         (th[t].pc \in {"cancel_extend", "cancel"}
            /\ auctions'[th[t].auction_id].end_date # auctions[th[t].auction_id].end_date
            /\ th'[t] # th[t]) =>
               /\ bids[th[t].bid_id].bid_status = "active"
               /\ bids'[th[t].bid_id].bid_status = "cancelled"]_vars

(***************************************************************************)
(* C29.  Under any interleaving of place_bid and cancel_bid on one         *)
(* auction, end is the initial end plus 5 minutes for every accepted late  *)
(* bid and every cancelled leading bid: the extension step of each such    *)
(* request moves the stored end forward by exactly 5 minutes, so that no   *)
(* extension is lost when two requests write from a stale end.  (Two       *)
(* cancel requests racing on the same bid count once and are left out of   *)
(* the per-step form.)                                                     *)
(***************************************************************************)
C29_EveryExtensionAddsFive ==
    [][\A t \in Threads :
         ( \/ th[t].pc = "committed" /\ th'[t].pc = "notifying"
           \/ /\ th[t].pc = "cancel_extend" /\ th'[t].pc = "cancel"
              /\ bids[th[t].bid_id].bid_status = "active"
              /\ \A t2 \in Threads \ {t} :
                    \/ th[t2].pc \notin {"cancel_extend", "cancel"}
                    \/ th[t2].bid_id # th[t].bid_id ) =>
               auctions'[th[t].auction_id].end_date =
                   auctions[th[t].auction_id].end_date + 5]_vars

(***************************************************************************)
(* C30.  Once end - now <= 10 minutes holds for an auction, it holds in    *)
(* every later state: the lock on cancelling the leading bid never         *)
(* releases once engaged.                                                  *)
(***************************************************************************)
C30_LockWindowNeverReleases ==
    [][\A a \in AuctionIds :
         (auctions[a].auction_status = "active"
            /\ auctions[a].end_date - now <= 10) =>
               auctions'[a].end_date - now' <= 10]_vars

(***************************************************************************)
(* The delivery of the WebSocket registry (spec.md 4.3).                   *)
(***************************************************************************)
Range(seq) == {seq[i] : i \in DOMAIN seq}

\* the sends of task t to its current recipient are over
Published(t) == tasks[t].pc = "iterating" /\ tasks[t].pending = {}

\* the bid_update events a connection received are in the order of the bids
UpdatesInCommitOrder(websocket) ==
    LET received == websockets[websocket].received
    IN \A i, j \in DOMAIN received :
         (i < j /\ received[i].type = "bid_update" /\ received[j].type = "bid_update") =>
             received[i].bid_id < received[j].bid_id

\* the fan-out tasks iterate the participants in the same order
SameIterationOrder ==
    \A s, t \in DOMAIN tasks :
        (tasks[s].op = "broadcast" /\ tasks[t].op = "broadcast") =>
            tasks[s].user_ids = tasks[t].user_ids

(***************************************************************************)
(* C24.  send_to_user never raises to its caller: when a send on one       *)
(* connection fails the error is swallowed, that connection is removed     *)
(* from the recipient's registered set, and every other connection of the  *)
(* recipient has received the message and stays registered.                *)
(***************************************************************************)
C24_SendToUserSwallowsErrors ==
    [][\A t \in DOMAIN tasks :
         /\ tasks'[t].pc # "raised"
         /\ (Published(t) /\ tasks'[t] # tasks[t]) =>
              \A websocket \in connections_of(active_connections, tasks[t].user_id) :
                 IF websockets[websocket].received # <<>>
                    /\ tasks[t].message \in Range(websockets[websocket].received)
                 THEN websocket \in active_connections'[tasks[t].user_id]
                 ELSE websocket \notin active_connections'[tasks[t].user_id]]_vars

\* a send_to_user has returned after one connection of the recipient failed
\* and another one received the message
C24_Witness ==
    \E t \in DOMAIN tasks :
        /\ tasks[t].op = "send" /\ tasks[t].pc = "done"
        /\ tasks[t].disconnected # {}
        /\ tasks[t].user_id \in DOMAIN active_connections
        /\ \E websocket \in active_connections[tasks[t].user_id] :
             tasks[t].message \in Range(websockets[websocket].received)

(***************************************************************************)
(* C26.  After any sequence of add_connection, remove_connection and       *)
(* send_to_user the registry holds no user whose set of connections is     *)
(* empty.                                                                  *)
(***************************************************************************)
C26_NoEmptyEntry ==
    \A user_id \in DOMAIN active_connections : active_connections[user_id] # {}

C28_SlowConsumerStallsNobody ==
    \A s, t \in DOMAIN tasks :
        (tasks[s].pc = "awaiting" /\ tasks[t].pc = "waiting") =>
            /\ tasks[t].op \in {"send", "broadcast"}
            /\ tasks[t].user_id = tasks[s].user_id

====
